---- MODULE Spec2Model ----
(***************************************************************************)
(* Model of src/main.rs: a container launcher that pulls an image from a   *)
(* registry, unpacks its layers into CHROOT_DIR, prepares the directory,   *)
(* changes root into it, asks for a new pid namespace and runs a command.  *)
(***************************************************************************)
EXTENDS Integers, Sequences, FiniteSets, TLC

\* ------------------------------------------------------------------ bounds
MaxLen == 4          \* longest image reference given on the command line
MaxManifests == 3    \* longest manifest list the registry answers with
MaxLayers == 2       \* most layers in one image manifest
MaxRuns == 2         \* how many times the program is invoked in sequence

Procs == {1, 2}      \* invocations of the program

\* ------------------------------------------------------- strings and parsing
Chars == {"a", "b", ":"}

LATEST == <<"l", "a", "t", "e", "s", "t">>

RECURSIVE SeqsUpTo(_, _)
SeqsUpTo(S, n) ==
    IF n = 0 THEN {<<>>}
    ELSE LET shorter == SeqsUpTo(S, n - 1)
         IN  shorter \cup {Append(s, x) : s \in {t \in shorter : Len(t) = n - 1}, x \in S}

\* str::split(':'): the pieces between the colons, one piece for no colon.
RECURSIVE Split(_)
Split(s) ==
    IF s = <<>> THEN << <<>> >>
    ELSE LET rest == Split(Tail(s))
         IN  IF Head(s) = ":"
             THEN << <<>> >> \o rest
             ELSE << <<Head(s)>> \o Head(rest) >> \o Tail(rest)

parse_image_any(s) ==
    LET parsed_image_str == Split(s)
    IN  IF Len(parsed_image_str) = 1
        THEN [ok |-> TRUE, name |-> parsed_image_str[1], tag |-> LATEST]
        ELSE [ok |-> TRUE, name |-> parsed_image_str[1], tag |-> parsed_image_str[2]]

parse_image(s) ==
    LET parsed_image_str == Split(s)
    IN  IF Len(parsed_image_str) = 1
        THEN [ok |-> TRUE, name |-> parsed_image_str[1], tag |-> LATEST]
        ELSE IF Len(parsed_image_str) = 2
        THEN [ok |-> TRUE, name |-> parsed_image_str[1], tag |-> parsed_image_str[2]]
        ELSE [ok |-> FALSE, name |-> <<>>, tag |-> <<>>]

\* ------------------------------------------------------------- file system
CHROOT_DIR == "/tmp/codecrafters"
USR == "/tmp/codecrafters/usr"
USR_LOCAL == "/tmp/codecrafters/usr/local"
BIN_DIR == "/tmp/codecrafters/usr/local/bin"
HELPER == "/tmp/codecrafters/usr/local/bin/docker-explorer"
DEV == "/tmp/codecrafters/dev"
DEV_NULL == "/tmp/codecrafters/dev/null"
APP == "/tmp/codecrafters/app"

Paths == {CHROOT_DIR, USR, USR_LOCAL, BIN_DIR, HELPER, DEV, DEV_NULL, APP}

Parent(p) ==
    CASE p = USR -> CHROOT_DIR
      [] p = USR_LOCAL -> USR
      [] p = BIN_DIR -> USR_LOCAL
      [] p = HELPER -> BIN_DIR
      [] p = DEV -> CHROOT_DIR
      [] p = DEV_NULL -> DEV
      [] p = APP -> CHROOT_DIR
      [] OTHER -> CHROOT_DIR

\* An entry of the tree: nothing, a regular file, a directory, or a symbolic
\* link with an absolute target that names no directory.
Absent == [kind |-> "none", data |-> ""]
Dir == [kind |-> "dir", data |-> ""]
File(d) == [kind |-> "file", data |-> d]

FreshRoot == [p \in Paths |-> Absent]
BlockedRoot == [FreshRoot EXCEPT ![CHROOT_DIR] = File("stray")]

\* std::fs::create_dir_all: an existing directory is accepted, missing
\* ancestors are created, anything else in the way is an error.
RECURSIVE create_dir_all(_, _)
create_dir_all(fs, p) ==
    IF fs[p].kind = "dir" THEN [ok |-> TRUE, fs |-> fs]
    ELSE IF fs[p].kind # "none" THEN [ok |-> FALSE, fs |-> fs]
    ELSE IF p = CHROOT_DIR THEN [ok |-> TRUE, fs |-> [fs EXCEPT ![p] = Dir]]
    ELSE LET up == create_dir_all(fs, Parent(p))
         IN  IF up.ok THEN [ok |-> TRUE, fs |-> [up.fs EXCEPT ![p] = Dir]]
             ELSE [ok |-> FALSE, fs |-> up.fs]

\* std::fs::copy of the helper: the destination is opened for writing with
\* create and truncate, following a symbolic link at the destination.
copy_no_clobber(fs, present) ==
    IF ~present \/ fs[BIN_DIR].kind # "dir" \/ fs[HELPER].kind # "none"
    THEN [ok |-> FALSE, fs |-> fs]
    ELSE [ok |-> TRUE, fs |-> [fs EXCEPT ![HELPER] = File("helper")]]

copy(fs, present) ==
    IF ~present \/ fs[BIN_DIR].kind # "dir" \/ fs[HELPER].kind = "dir"
    THEN [ok |-> FALSE, fs |-> fs]
    ELSE IF fs[HELPER].kind = "link"
    THEN [ok |-> TRUE, fs |-> fs]
    ELSE [ok |-> TRUE, fs |-> [fs EXCEPT ![HELPER] = File("helper")]]

\* ------------------------------------------------------------------ layers
LayerIds == {"base", "over", "tools", "binfile", "nullfile", "linkhelper"}

\* The archive entries of each layer blob, in archive order.
LayerEntries(id) ==
    CASE id = "base" -> << [path |-> APP, kind |-> "file"] >>
      [] id = "over" -> << [path |-> APP, kind |-> "file"] >>
      [] id = "tools" -> << [path |-> USR, kind |-> "dir"],
                            [path |-> USR_LOCAL, kind |-> "dir"],
                            [path |-> BIN_DIR, kind |-> "dir"],
                            [path |-> HELPER, kind |-> "file"] >>
      [] id = "binfile" -> << [path |-> BIN_DIR, kind |-> "file"] >>
      [] id = "nullfile" -> << [path |-> DEV_NULL, kind |-> "file"] >>
      [] id = "linkhelper" -> << [path |-> HELPER, kind |-> "link"] >>
      [] OTHER -> << >>

\* tar::Entry::unpack_in with overwrite on: ancestors are created, a
\* directory entry accepts an existing directory, a file or link entry
\* replaces whatever is there except a directory.
unpack_entry_keep(fs, e, id) ==
    LET up == create_dir_all(fs, Parent(e.path))
    IN  IF ~up.ok THEN [ok |-> FALSE, fs |-> up.fs]
        ELSE IF e.kind = "dir"
        THEN IF up.fs[e.path].kind \in {"none", "dir"}
             THEN [ok |-> TRUE, fs |-> [up.fs EXCEPT ![e.path] = Dir]]
             ELSE [ok |-> FALSE, fs |-> up.fs]
        ELSE IF up.fs[e.path].kind = "dir" THEN [ok |-> FALSE, fs |-> up.fs]
        ELSE IF up.fs[e.path].kind # "none" THEN [ok |-> TRUE, fs |-> up.fs]
        ELSE [ok |-> TRUE,
              fs |-> [up.fs EXCEPT ![e.path] = [kind |-> e.kind, data |-> id]]]

unpack_entry(fs, e, id) ==
    LET up == create_dir_all(fs, Parent(e.path))
    IN  IF ~up.ok THEN [ok |-> FALSE, fs |-> up.fs]
        ELSE IF e.kind = "dir"
        THEN IF up.fs[e.path].kind \in {"none", "dir"}
             THEN [ok |-> TRUE, fs |-> [up.fs EXCEPT ![e.path] = Dir]]
             ELSE [ok |-> FALSE, fs |-> up.fs]
        ELSE IF up.fs[e.path].kind = "dir" THEN [ok |-> FALSE, fs |-> up.fs]
        ELSE [ok |-> TRUE,
              fs |-> [up.fs EXCEPT ![e.path] = [kind |-> e.kind, data |-> id]]]

RECURSIVE unpack_entries(_, _, _)
unpack_entries(fs, es, id) ==
    IF es = <<>> THEN [ok |-> TRUE, fs |-> fs]
    ELSE LET r == unpack_entry(fs, Head(es), id)
         IN  IF r.ok THEN unpack_entries(r.fs, Tail(es), id) ELSE r

\* Archive::unpack(CHROOT_DIR): the destination is created when missing,
\* then the entries are extracted in order until one fails.
unpack(fs, id) ==
    LET dst == create_dir_all(fs, CHROOT_DIR)
    IN  IF dst.ok THEN unpack_entries(dst.fs, LayerEntries(id), id) ELSE dst

\* ---------------------------------------------------------------- registry
Amd1 == [os |-> "linux", architecture |-> "amd64", digest |-> "d1", media_type |-> "m1"]
Amd2 == [os |-> "linux", architecture |-> "amd64", digest |-> "d2", media_type |-> "m2"]
Arm == [os |-> "linux", architecture |-> "arm64", digest |-> "d3", media_type |-> "m1"]
Win == [os |-> "windows", architecture |-> "amd64", digest |-> "d4", media_type |-> "m2"]

ManifestEntries == {Amd1, Amd2, Arm, Win}

\* The (digest, media type) pairs of the linux/amd64 entries, in list order.
target_images_os_only(ms) ==
    LET keep(m) == m.os = "linux"
    IN  [i \in 1..Len(SelectSeq(ms, keep)) |->
            << SelectSeq(ms, keep)[i].digest, SelectSeq(ms, keep)[i].media_type >>]

target_images(ms) ==
    LET keep(m) == m.architecture = "amd64" /\ m.os = "linux"
    IN  [i \in 1..Len(SelectSeq(ms, keep)) |->
            << SelectSeq(ms, keep)[i].digest, SelectSeq(ms, keep)[i].media_type >>]


\* ----------------------------------------------------------------- inputs
ImageInputs == { <<"a", ":", "b">>, <<"a", ":", "b", ":", "a">> }

ManifestInputs == { <<Arm, Amd1>>, <<Arm>> }

LayerLists == SeqsUpTo(LayerIds, MaxLayers)

\* What the registry may answer: the manifest lists and the layer lists.
Registry == [lists |-> ManifestInputs, layers |-> LayerLists]

ConcRegistry == [lists |-> {<<Arm, Amd1>>},
                 layers |-> {<<"base">>, <<"over">>, <<"tools">>}]

ExitCodes == {0, 1, 7, 255}

ChildStatuses ==
    {[kind |-> "exited", code |-> c] : c \in ExitCodes}
        \cup {[kind |-> "signaled", code |-> -1]}

NoChild == [kind |-> "none", code |-> -1]

\* ExitStatus::code().unwrap_or(1)
exit_code_or_zero(st) == IF st.kind = "exited" THEN st.code ELSE 0

exit_code(st) == IF st.kind = "exited" THEN st.code ELSE 1

\* std::process::exit: the parent of the program sees the low eight bits.
process_exit(code) == code % 256

\* The order of the statements of main from the directory creation on.
next_step_swapped(s) ==
    CASE s = "mkdir_root" -> "mkdir_bin"
      [] s = "mkdir_bin" -> "mkdir_null"
      [] s = "mkdir_null" -> "chroot"
      [] s = "chroot" -> "copy"
      [] s = "copy" -> "unshare"
      [] s = "unshare" -> "launch"
      [] OTHER -> "wait"

next_step(s) ==
    CASE s = "mkdir_root" -> "mkdir_bin"
      [] s = "mkdir_bin" -> "mkdir_null"
      [] s = "mkdir_null" -> "copy"
      [] s = "copy" -> "chroot"
      [] s = "chroot" -> "unshare"
      [] s = "unshare" -> "launch"
      [] OTHER -> "wait"

\* ------------------------------------------------------------------ state
VARIABLES
    pc,            \* where each invocation is in main
    image,         \* args[2]
    name, tag,     \* the result of parse_image
    token,         \* the bearer token
    manifest,      \* the manifest list fetch_manifest returned
    requested,     \* the (digest, accept) requests fetch_image_manifest sent
    layers,        \* the layers of the image manifest
    li,            \* the index of the layer the download loop is at
    root,          \* the tree at CHROOT_DIR, shared by all invocations
    events,        \* what each invocation has done so far, in order
    out, err,      \* what reached each invocation's stdout and stderr
    failed,        \* the operations that failed in each invocation
    exitCode,      \* the exit code of each invocation, -1 while it runs
    child,         \* the exit status of the target command
    runs,          \* how many invocations have been started in sequence
    registry,      \* the answers the registry may give
    helperOnHost,  \* whether /usr/local/bin/docker-explorer exists on the host
    bootRoot,      \* the tree as it was when the directory creation began
    between        \* 0 no write yet, 1 wrote, 2 another invocation wrote
                   \* since, 3 wrote again after that

vars == <<pc, image, name, tag, token, manifest, requested, layers, li, root,
          events, out, err, failed, exitCode, child, runs, registry,
          helperOnHost, bootRoot, between>>

locals == <<name, tag, token, manifest, requested, layers, li>>
inputs == <<image, registry, helperOnHost, runs>>

\* ------------------------------------------------------------------- Init
InitLocals ==
    /\ name = [p \in Procs |-> <<>>]
    /\ tag = [p \in Procs |-> <<>>]
    /\ token = [p \in Procs |-> ""]
    /\ manifest = [p \in Procs |-> <<>>]
    /\ requested = [p \in Procs |-> <<>>]
    /\ layers = [p \in Procs |-> <<>>]
    /\ li = [p \in Procs |-> 0]
    /\ events = [p \in Procs |-> <<>>]
    /\ out = [p \in Procs |-> <<>>]
    /\ err = [p \in Procs |-> <<>>]
    /\ failed = [p \in Procs |-> {}]
    /\ exitCode = [p \in Procs |-> -1]
    /\ child = [p \in Procs |-> NoChild]
    /\ bootRoot = [p \in Procs |-> FreshRoot]
    /\ between = [p \in Procs |-> 0]
    /\ runs = 1

\* One invocation on a machine where CHROOT_DIR does not exist yet, or where
\* something that is no directory is in its place.
Init ==
    /\ InitLocals
    /\ pc = [p \in Procs |-> IF p = 1 THEN "parse" ELSE "off"]
    /\ \E i \in ImageInputs : image = [p \in Procs |-> IF p = 1 THEN i ELSE <<>>]
    /\ registry = Registry
    /\ root \in {FreshRoot, BlockedRoot}
    /\ helperOnHost \in BOOLEAN

\* ---------------------------------------------------------------- actions
Proceed(p, s) ==
    /\ pc' = [pc EXCEPT ![p] = s]
    /\ UNCHANGED <<failed, err, exitCode>>

\* An Err returned from main: the message goes to stderr, the exit code is 1.
Abort(p, stage) ==
    /\ pc' = [pc EXCEPT ![p] = "aborted"]
    /\ failed' = [failed EXCEPT ![p] = @ \cup {stage}]
    /\ err' = [err EXCEPT ![p] = Append(@, "Error")]
    /\ exitCode' = [exitCode EXCEPT ![p] = 1]

Log(p, e) == events' = [events EXCEPT ![p] = Append(@, <<e, 0>>)]

NoteWrite(p) ==
    between' = [q \in Procs |->
                   IF q = p THEN (IF between[q] \in {2, 3} THEN 3 ELSE 1)
                   ELSE IF between[q] = 1 THEN 2 ELSE between[q]]

ParseImage(p) ==
    /\ pc[p] = "parse"
    /\ LET r == parse_image(image[p])
       IN  IF r.ok
           THEN /\ name' = [name EXCEPT ![p] = r.name]
                /\ tag' = [tag EXCEPT ![p] = r.tag]
                /\ Proceed(p, "auth")
           ELSE /\ Abort(p, "parse")
                /\ UNCHANGED <<name, tag>>
    /\ UNCHANGED <<token, manifest, requested, layers, li, root, events, out,
                   child, bootRoot, between, inputs>>

\* auth parses the image again and unwraps: main has parsed it already.
Auth(p) ==
    /\ pc[p] = "auth"
    /\ parse_image(image[p]).ok
    /\ \E ok \in BOOLEAN :
          IF ok
          THEN /\ token' = [token EXCEPT ![p] = "tok"]
               /\ Proceed(p, "fetch_manifest")
          ELSE /\ Abort(p, "auth")
               /\ UNCHANGED token
    /\ UNCHANGED <<name, tag, manifest, requested, layers, li, root, events,
                   out, child, bootRoot, between, inputs>>

\* The first request of fetch_manifest: the body is read as text, and the
\* result of reading it is printed to stdout whether it is Ok or Err.
FetchManifestText(p) ==
    /\ pc[p] = "fetch_manifest"
    /\ \E sent \in BOOLEAN :
          IF sent
          THEN /\ out' = [out EXCEPT ![p] = Append(@, "Response")]
               /\ Proceed(p, "fetch_manifest_json")
          ELSE /\ Abort(p, "fetch_manifest")
               /\ UNCHANGED out
    /\ UNCHANGED <<locals, root, events, child, bootRoot, between, inputs>>

\* The second request of fetch_manifest, decoded as a ManifestResponse.
FetchManifest(p) ==
    /\ pc[p] = "fetch_manifest_json"
    /\ \E ok \in BOOLEAN :
          IF ok
          THEN /\ \E m \in registry.lists : manifest' = [manifest EXCEPT ![p] = m]
               /\ Proceed(p, "fetch_image_manifest")
          ELSE /\ Abort(p, "fetch_manifest")
               /\ UNCHANGED manifest
    /\ UNCHANGED <<name, tag, token, requested, layers, li, root, events, out,
                   child, bootRoot, between, inputs>>

FetchImageManifest(p) ==
    /\ pc[p] = "fetch_image_manifest"
    /\ LET target == target_images(manifest[p])
       IN  IF Len(target) = 0
           THEN /\ Abort(p, "platform")
                /\ UNCHANGED <<requested, layers, li>>
           ELSE /\ requested' = [requested EXCEPT ![p] = Append(@, target[1])]
                /\ \E ok \in BOOLEAN :
                      IF ok
                      THEN /\ \E ls \in registry.layers :
                                 layers' = [layers EXCEPT ![p] = ls]
                           /\ li' = [li EXCEPT ![p] = 1]
                           /\ Proceed(p, "download")
                      ELSE /\ Abort(p, "fetch_image_manifest")
                           /\ UNCHANGED <<layers, li>>
    /\ UNCHANGED <<name, tag, token, manifest, root, events, out, child,
                   bootRoot, between, inputs>>

\* One turn of the loop of download_image_from_manifest, up to the bytes.
DownloadLayer(p) ==
    /\ pc[p] = "download"
    /\ li[p] <= Len(layers[p])
    /\ \E ok \in BOOLEAN :
          IF ok
          THEN /\ events' = [events EXCEPT ![p] = Append(@, <<"download", li[p]>>)]
               /\ Proceed(p, "unpack")
          ELSE /\ Abort(p, "download")
               /\ UNCHANGED events
    /\ UNCHANGED <<locals, root, out, child, bootRoot, between, inputs>>

\* The rest of the turn: the blob is decoded and unpacked into CHROOT_DIR.
UnpackLayerLocked(p) ==
    /\ pc[p] = "unpack"
    /\ \A q \in Procs \ {p} : between[q] = 0 \/ pc[q] \in {"done", "aborted"}
    /\ \E decoded \in BOOLEAN :
          IF decoded
          THEN LET r == unpack(root, layers[p][li[p]])
               IN  /\ root' = r.fs
                   /\ IF r.ok
                      THEN /\ events' = [events EXCEPT ![p] = Append(@, <<"unpack", li[p]>>)]
                           /\ li' = [li EXCEPT ![p] = @ + 1]
                           /\ NoteWrite(p)
                           /\ Proceed(p, "download")
                      ELSE /\ Abort(p, "unpack")
                           /\ UNCHANGED <<events, li, between>>
          ELSE /\ Abort(p, "unpack")
               /\ UNCHANGED <<root, events, li, between>>
    /\ UNCHANGED <<name, tag, token, manifest, requested, layers, out, child,
                   bootRoot, inputs>>

UnpackLayer(p) ==
    /\ pc[p] = "unpack"
    /\ \E decoded \in BOOLEAN :
          IF decoded
          THEN LET r == unpack(root, layers[p][li[p]])
               IN  /\ root' = r.fs
                   /\ IF r.ok
                      THEN /\ events' = [events EXCEPT ![p] = Append(@, <<"unpack", li[p]>>)]
                           /\ li' = [li EXCEPT ![p] = @ + 1]
                           /\ NoteWrite(p)
                           /\ Proceed(p, "download")
                      ELSE /\ Abort(p, "unpack")
                           /\ UNCHANGED <<events, li, between>>
          ELSE /\ Abort(p, "unpack")
               /\ UNCHANGED <<root, events, li, between>>
    /\ UNCHANGED <<name, tag, token, manifest, requested, layers, out, child,
                   bootRoot, inputs>>

\* The loop has run out of layers: download_image_from_manifest returns Ok.
DownloadReturn(p) ==
    /\ pc[p] = "download"
    /\ li[p] > Len(layers[p])
    /\ Log(p, "layers_unpacked")
    /\ Proceed(p, "mkdir_root")
    /\ UNCHANGED <<locals, root, out, child, bootRoot, between, inputs>>

Mkdir(p, stage, path) ==
    /\ pc[p] = stage
    /\ LET r == create_dir_all(root, path)
       IN  IF r.ok
           THEN /\ root' = r.fs
                /\ Log(p, stage)
                /\ NoteWrite(p)
                /\ Proceed(p, next_step(stage))
           ELSE /\ Abort(p, stage)
                /\ UNCHANGED <<root, events, between>>
    /\ UNCHANGED <<locals, out, child, inputs>>

MkdirRoot(p) ==
    /\ Mkdir(p, "mkdir_root", CHROOT_DIR)
    /\ bootRoot' = [bootRoot EXCEPT ![p] = root]

MkdirBin(p) ==
    /\ Mkdir(p, "mkdir_bin", BIN_DIR)
    /\ UNCHANGED bootRoot

MkdirNull(p) ==
    /\ Mkdir(p, "mkdir_null", DEV_NULL)
    /\ UNCHANGED bootRoot

CopyHelper(p) ==
    /\ pc[p] = "copy"
    /\ LET r == copy(root, helperOnHost)
       IN  IF r.ok
           THEN /\ root' = r.fs
                /\ Log(p, "copy")
                /\ NoteWrite(p)
                /\ Proceed(p, next_step("copy"))
           ELSE /\ Abort(p, "copy")
                /\ UNCHANGED <<root, events, between>>
    /\ UNCHANGED <<locals, out, child, bootRoot, inputs>>

Chroot(p) ==
    /\ pc[p] = "chroot"
    /\ \E ok \in BOOLEAN :
          IF ok
          THEN /\ Log(p, "chroot")
               /\ Proceed(p, next_step("chroot"))
          ELSE /\ Abort(p, "chroot")
               /\ UNCHANGED events
    /\ UNCHANGED <<locals, root, out, child, bootRoot, between, inputs>>

\* libc::unshare(CLONE_NEWPID): the return value is not looked at.
Unshare(p) ==
    /\ pc[p] = "unshare"
    /\ \E ok \in BOOLEAN :
          failed' = [failed EXCEPT ![p] = IF ok THEN @ ELSE @ \cup {"unshare"}]
    /\ Log(p, "unshare")
    /\ pc' = [pc EXCEPT ![p] = next_step("unshare")]
    /\ UNCHANGED <<locals, root, out, err, exitCode, child, bootRoot, between, inputs>>

\* Command::new(command).output(): the command is looked up in the new root.
Launch(p) ==
    /\ pc[p] = "launch"
    /\ IF root[APP].kind = "file"
       THEN /\ Log(p, "launch")
            /\ Proceed(p, next_step("launch"))
       ELSE /\ Abort(p, "launch")
            /\ UNCHANGED events
    /\ UNCHANGED <<locals, root, out, child, bootRoot, between, inputs>>

\* The child writes to the inherited streams and ends; main exits with its code.
Wait(p) ==
    /\ pc[p] = "wait"
    /\ \E st \in ChildStatuses :
          /\ child' = [child EXCEPT ![p] = st]
          /\ exitCode' = [exitCode EXCEPT ![p] = process_exit(exit_code(st))]
    /\ out' = [out EXCEPT ![p] = Append(@, "child")]
    /\ err' = [err EXCEPT ![p] = Append(@, "childerr")]
    /\ pc' = [pc EXCEPT ![p] = "done"]
    /\ UNCHANGED <<locals, root, events, failed, bootRoot, between, inputs>>

\* The program is started again once the previous invocation has ended;
\* CHROOT_DIR is left as that invocation left it.
Reinvoke(p) ==
    /\ pc[p] \in {"done", "aborted"}
    /\ runs < MaxRuns
    /\ runs' = runs + 1
    /\ pc' = [pc EXCEPT ![p] = "parse"]
    /\ \E i \in ImageInputs : image' = [image EXCEPT ![p] = i]
    /\ name' = [name EXCEPT ![p] = <<>>]
    /\ tag' = [tag EXCEPT ![p] = <<>>]
    /\ token' = [token EXCEPT ![p] = ""]
    /\ manifest' = [manifest EXCEPT ![p] = <<>>]
    /\ requested' = [requested EXCEPT ![p] = <<>>]
    /\ layers' = [layers EXCEPT ![p] = <<>>]
    /\ li' = [li EXCEPT ![p] = 0]
    /\ events' = [events EXCEPT ![p] = <<>>]
    /\ out' = [out EXCEPT ![p] = <<>>]
    /\ err' = [err EXCEPT ![p] = <<>>]
    /\ failed' = [failed EXCEPT ![p] = {}]
    /\ exitCode' = [exitCode EXCEPT ![p] = -1]
    /\ child' = [child EXCEPT ![p] = NoChild]
    /\ bootRoot' = [bootRoot EXCEPT ![p] = FreshRoot]
    /\ between' = [between EXCEPT ![p] = 0]
    /\ UNCHANGED <<root, helperOnHost, registry>>

Step(p) ==
    \/ ParseImage(p)
    \/ Auth(p)
    \/ FetchManifestText(p)
    \/ FetchManifest(p)
    \/ FetchImageManifest(p)
    \/ DownloadLayer(p)
    \/ UnpackLayer(p)
    \/ DownloadReturn(p)
    \/ MkdirRoot(p)
    \/ MkdirBin(p)
    \/ MkdirNull(p)
    \/ CopyHelper(p)
    \/ Chroot(p)
    \/ Unshare(p)
    \/ Launch(p)
    \/ Wait(p)

Next == Step(1) \/ Reinvoke(1)

Spec == Init /\ [][Next]_vars


\* ------------------------------------------- parse_image on every reference
InitParse ==
    /\ InitLocals
    /\ pc = [p \in Procs |-> IF p = 1 THEN "parse" ELSE "off"]
    /\ \E i \in SeqsUpTo(Chars, MaxLen) :
          image = [p \in Procs |-> IF p = 1 THEN i ELSE <<>>]
    /\ registry = Registry
    /\ root = FreshRoot
    /\ helperOnHost = TRUE

NextParse == ParseImage(1)

SpecParse == InitParse /\ [][NextParse]_vars

\* -------------------------------- fetch_image_manifest on every manifest list
\* The invocation has parsed "a:b", holds a token and has just received the
\* manifest list.
InitManifest ==
    /\ pc = [p \in Procs |-> IF p = 1 THEN "fetch_image_manifest" ELSE "off"]
    /\ image = [p \in Procs |-> IF p = 1 THEN <<"a", ":", "b">> ELSE <<>>]
    /\ name = [p \in Procs |-> IF p = 1 THEN <<"a">> ELSE <<>>]
    /\ tag = [p \in Procs |-> IF p = 1 THEN <<"b">> ELSE <<>>]
    /\ token = [p \in Procs |-> IF p = 1 THEN "tok" ELSE ""]
    /\ registry = [lists |-> SeqsUpTo(ManifestEntries, MaxManifests),
                    layers |-> {<<"base">>}]
    /\ \E m \in registry.lists :
          manifest = [p \in Procs |-> IF p = 1 THEN m ELSE <<>>]
    /\ requested = [p \in Procs |-> <<>>]
    /\ layers = [p \in Procs |-> <<>>]
    /\ li = [p \in Procs |-> 0]
    /\ events = [p \in Procs |-> <<>>]
    /\ out = [p \in Procs |-> IF p = 1 THEN <<"Response">> ELSE <<>>]
    /\ err = [p \in Procs |-> <<>>]
    /\ failed = [p \in Procs |-> {}]
    /\ exitCode = [p \in Procs |-> -1]
    /\ child = [p \in Procs |-> NoChild]
    /\ bootRoot = [p \in Procs |-> FreshRoot]
    /\ between = [p \in Procs |-> 0]
    /\ runs = 1
    /\ root = FreshRoot
    /\ helperOnHost = TRUE

NextManifest == FetchImageManifest(1)

SpecManifest == InitManifest /\ [][NextManifest]_vars

\* --------------------------------------------- two invocations at the same time
InitConc ==
    /\ InitLocals
    /\ pc = [p \in Procs |-> "parse"]
    /\ image = [p \in Procs |-> <<"a", ":", "b">>]
    /\ registry = ConcRegistry
    /\ root = FreshRoot
    /\ helperOnHost = TRUE

NextConc == \E p \in Procs : Step(p)

SpecConc == InitConc /\ [][NextConc]_vars


\* ------------------------------------------------------------------ claims
Colons(s) == Cardinality({i \in 1..Len(s) : s[i] = ":"})

Parsed(p) == pc[p] \notin {"off", "parse"}

\* C1: once an invocation has parsed its reference s, a reference with no
\* colon gave (s, "latest"), one with exactly one colon gave (the text
\* before it, the text after it), and one with two or more colons gave an
\* error and no pair; the first two never gave an error.
C1_ParseImageRule ==
    \A p \in Procs :
        Parsed(p) =>
            LET s == image[p]
                n == Colons(s)
            IN  /\ n = 0 => /\ "parse" \notin failed[p]
                            /\ name[p] = s
                            /\ tag[p] = LATEST
                /\ n = 1 => LET i == CHOOSE j \in 1..Len(s) : s[j] = ":"
                            IN  /\ "parse" \notin failed[p]
                                /\ name[p] = SubSeq(s, 1, i - 1)
                                /\ tag[p] = SubSeq(s, i + 1, Len(s))
                /\ n >= 2 => /\ "parse" \in failed[p]
                             /\ pc[p] = "aborted"
                             /\ name[p] = <<>>
                             /\ tag[p] = <<>>

C1_Witness ==
    /\ pc[1] = "auth"
    /\ Colons(image[1]) = 1
    /\ name[1] # <<>>
    /\ tag[1] # <<>>
    /\ tag[1] # LATEST

\* C2: an invocation in which any operation failed, the namespace request
\* included, has aborted: it never goes on to a later stage nor launches
\* the target command.
C2_FailFast ==
    \A p \in Procs : failed[p] # {} => pc[p] = "aborted"

\* C3: when the target command was launched and waited for, the exit code
\* of the program is the child's exit code when it has one, and 1 when it
\* ended without one.
C3_ExitCodeForwarded ==
    \A p \in Procs :
        pc[p] = "done" =>
            /\ child[p].kind = "exited" => exitCode[p] = child[p].code
            /\ child[p].kind = "signaled" => exitCode[p] = 1

C3_Witness ==
    /\ pc[1] = "done"
    /\ child[1].kind = "signaled"
    /\ exitCode[1] = 1

Matching(ms) ==
    {i \in 1..Len(ms) : ms[i].os = "linux" /\ ms[i].architecture = "amd64"}

FetchedImageManifest(p) ==
    /\ pc[p] \notin {"off", "parse", "auth", "fetch_manifest",
                     "fetch_manifest_json", "fetch_image_manifest"}
    /\ failed[p] \cap {"parse", "auth", "fetch_manifest"} = {}

\* C4: fetch_image_manifest asks for exactly one image manifest, that of the
\* first linux/amd64 entry of the manifest list, with that entry's media
\* type; when no entry matches it asks for none and fails with the
\* platform error; before it runs nothing has been asked for.
C4_FirstMatchingEntry ==
    \A p \in Procs :
        IF FetchedImageManifest(p)
        THEN LET ms == manifest[p]
             IN  IF Matching(ms) = {}
                 THEN /\ requested[p] = <<>>
                      /\ "platform" \in failed[p]
                 ELSE LET first == CHOOSE i \in Matching(ms) :
                                       \A j \in Matching(ms) : i <= j
                      IN  /\ requested[p] = << <<ms[first].digest, ms[first].media_type>> >>
                          /\ "platform" \notin failed[p]
        ELSE requested[p] = <<>>

C4_Witness ==
    /\ FetchedImageManifest(1)
    /\ Len(manifest[1]) = 3
    /\ Matching(manifest[1]) = {2, 3}
    /\ manifest[1][2].digest # manifest[1][3].digest
    /\ requested[1] = << <<manifest[1][2].digest, manifest[1][2].media_type>> >>

LayerEvents(p) ==
    SelectSeq(events[p], LAMBDA e : e[1] \in {"download", "unpack"})

Writers(ls, path) ==
    {i \in 1..Len(ls) :
        \E k \in 1..Len(LayerEntries(ls[i])) : LayerEntries(ls[i])[k].path = path}

Written(ls, path) ==
    LET last == CHOOSE i \in Writers(ls, path) : \A j \in Writers(ls, path) : j <= i
        es == LayerEntries(ls[last])
        e == es[CHOOSE k \in 1..Len(es) : es[k].path = path]
    IN  IF e.kind = "dir" THEN Dir ELSE [kind |-> e.kind, data |-> ls[last]]

\* C5: an invocation downloads and unpacks its layers one at a time in
\* manifest order, each unpack before the next download; and when
\* download_image_from_manifest has returned Ok, every path some layer
\* wrote holds what the last layer in manifest order with that path gives.
C5_LastWriteWins ==
    \A p \in Procs :
        /\ \A k \in 1..Len(LayerEvents(p)) :
              LayerEvents(p)[k] =
                  IF k % 2 = 1 THEN <<"download", (k + 1) \div 2>>
                  ELSE <<"unpack", k \div 2>>
        /\ pc[p] = "mkdir_root" =>
              /\ Len(LayerEvents(p)) = 2 * Len(layers[p])
              /\ \A path \in Paths :
                    Writers(layers[p], path) # {} =>
                        root[path] = Written(layers[p], path)

C5_Witness ==
    /\ pc[1] = "mkdir_root"
    /\ layers[1] = <<"base", "over">>
    /\ root[APP] = File("over")

BootEvents ==
    << <<"layers_unpacked", 0>>, <<"mkdir_root", 0>>, <<"mkdir_bin", 0>>,
       <<"mkdir_null", 0>>, <<"copy", 0>>, <<"chroot", 0>>, <<"unshare", 0>>,
       <<"launch", 0>> >>

Launched(p) == \E k \in 1..Len(events[p]) : events[p][k][1] = "launch"

\* C6: in an invocation that launched the target command, after the layer
\* downloads and unpacks these happened once each and in this order, the
\* launch last: all layers unpacked, the three directories created, the
\* helper copied, the root changed, the pid namespace requested.
C6_BootstrapOrder ==
    \A p \in Procs :
        /\ Launched(p) =>
              /\ Len(LayerEvents(p)) = 2 * Len(layers[p])
              /\ events[p] = LayerEvents(p) \o BootEvents
        /\ pc[p] \in {"wait", "done"} => Launched(p)

C6_Witness ==
    /\ pc[1] = "done"
    /\ Len(layers[1]) = 2
    /\ Launched(1)

Ready(fs) ==
    /\ fs[CHROOT_DIR].kind = "dir"
    /\ fs[BIN_DIR].kind = "dir"
    /\ fs[DEV_NULL].kind = "dir"
    /\ fs[HELPER] = File("helper")

BootstrapBegun(p) ==
    \E k \in 1..Len(events[p]) : events[p][k][1] = "layers_unpacked"

\* C7: when the directory creation begins on a root that already holds the
\* root directory, usr/local/bin, dev/null and the copied helper, the
\* directory creation and the helper copy do not fail, and once they are
\* through the root is as it was when they began.
C7_BootstrapIdempotent ==
    \A p \in Procs :
        (BootstrapBegun(p) /\ pc[p] # "mkdir_root" /\ Ready(bootRoot[p])) =>
            /\ failed[p] \cap {"mkdir_root", "mkdir_bin", "mkdir_null", "copy"} = {}
            /\ pc[p] \notin {"mkdir_bin", "mkdir_null", "copy"} => root = bootRoot[p]

C7_Witness ==
    /\ runs = 2
    /\ pc[1] = "chroot"
    /\ Ready(bootRoot[1])
    /\ root = bootRoot[1]

\* C8: whenever an invocation is about to change its root, the root holds
\* the directory usr/local/bin, the dev/null placeholder and the helper
\* binary at usr/local/bin/docker-explorer, whatever the layers held.
C8_SkeletonAtChroot ==
    \A p \in Procs : pc[p] = "chroot" => Ready(root)

\* C9: in an invocation that ran the target command, stdout and stderr
\* carry what the target command wrote and nothing else.
C9_OutputUnchanged ==
    \A p \in Procs :
        pc[p] = "done" => /\ out[p] = <<"child">>
                          /\ err[p] = <<"childerr">>

\* C10: nothing makes an invocation wait for another one before it writes
\* under CHROOT_DIR: whenever it is about to unpack a layer, create a
\* directory or copy the helper, that step can be taken, and the unpack
\* writes into the one shared tree, wherever the other invocation is.
C10_NoMutualExclusion ==
    \A p \in Procs :
        /\ pc[p] = "unpack" =>
              ENABLED (UnpackLayer(p) /\ root' = unpack(root, layers[p][li[p]]).fs)
        /\ pc[p] = "mkdir_root" => ENABLED MkdirRoot(p)
        /\ pc[p] = "mkdir_bin" => ENABLED MkdirBin(p)
        /\ pc[p] = "mkdir_null" => ENABLED MkdirNull(p)
        /\ pc[p] = "copy" => ENABLED CopyHelper(p)

\* A write of the other invocation fell between two writes of invocation a,
\* and a runs its target in a root whose command file came from the other
\* invocation's image.
C10_Witness ==
    \E a \in Procs : \E b \in Procs \ {a} :
        /\ pc[a] \in {"wait", "done"}
        /\ between[a] = 3
        /\ root[APP].kind = "file"
        /\ \A k \in 1..Len(layers[a]) : layers[a][k] # root[APP].data
        /\ \E k \in 1..Len(layers[b]) : layers[b][k] = root[APP].data

====
